---- MODULE Spec2Model ----
(***************************************************************************)
(* delivr: a command runner that reads a list of commands from a          *)
(* configuration file, runs each one as a subprocess, logs its output and *)
(* posts start/result notifications to a Discord webhook.                 *)
(*                                                                         *)
(* The model follows main (src/main.go) and the command runner             *)
(* (Runner.Execute, Runner.ExecuteAll).  The webhook, the file system and  *)
(* the subprocesses are the environment: every send may succeed or fail,   *)
(* and a subprocess ends the way its executable decides.                   *)
(***************************************************************************)
EXTENDS Integers, Sequences, FiniteSets, TLC

VARIABLES
    pc,          \* position of main: flags, client, startup, logger, loop, wait, exited, fatal, killed
    flags,       \* parsed command line: [daemon, init]
    cfg,         \* the loaded configuration, NoConfig before Load
    client,      \* the discord client, NoClient before NewClient
    cmdLogger,   \* the command logger: "none", "open", "closed"
    i,           \* index of the command the caller's range loop is at
    epc,         \* position inside Runner.Execute: idle, start, prepare, run, footer, result, returned
    runErr,      \* err of command.Run() in the running Execute
    ret,         \* value returned by the last Execute
    eaRet,       \* value returned by ExecuteAll
    handler,     \* TRUE once signal.Notify registered sigCh
    sigCh,       \* signals buffered in sigCh (capacity 1)
    nsig,        \* signals the environment has raised so far
    exitStatus,  \* process exit status: << >> while none, else <<code>>
    events,      \* everything the process did to the outside, in order
    fsys,        \* the file system: what is at each path
    environ,     \* the process environment: DELIVR_CONFIG, and whether a home directory is known
    loadedConfigPath, \* package config: path of the configuration that was loaded
    stdout,      \* lines printed with fmt.Printf
    logConfig,   \* CommandLogger.config and baseDir
    loggers,     \* CommandLogger.loggers: the writers cached by file name token
    today,       \* the day time.Now() is in
    call         \* the last call of a function checked on its own, with its result

\* the state of main and of the runner
mainVars == <<pc, flags, cfg, client, cmdLogger, i, epc, runErr, ret, eaRet,
              handler, sigCh, nsig, exitStatus, events>>
\* the state of package config
configVars == <<fsys, environ, loadedConfigPath, stdout>>
\* the state of package logger
loggerVars == <<logConfig, loggers, today>>

vars == <<pc, flags, cfg, client, cmdLogger, i, epc, runErr, ret, eaRet,
          handler, sigCh, nsig, exitStatus, events,
          fsys, environ, loadedConfigPath, stdout, logConfig, loggers, today, call>>

(***************************************************************************)
(* Bounds                                                                  *)
(***************************************************************************)
MaxCommands == 2
MaxSignals == 2

(***************************************************************************)
(* Strings that the code inspects are sequences of characters.            *)
(***************************************************************************)
WebhookPrefix ==
    <<"h","t","t","p","s",":","/","/","d","i","s","c","o","r","d",".","c","o","m",
      "/","a","p","i","/","w","e","b","h","o","o","k","s","/">>

\* a prefix test that accepts p anywhere in s
HasPrefixAnywhere(s, p) ==
    \E n \in 1..Len(s) : n + Len(p) - 1 <= Len(s) /\ SubSeq(s, n, n + Len(p) - 1) = p

\* strings.HasPrefix
HasPrefix(s, p) == Len(s) >= Len(p) /\ SubSeq(s, 1, Len(p)) = p

ValidURL == WebhookPrefix \o <<"1","/","t">>
BadURL == <<"h","t","t","p",":","/","/","x">>
EmptyStr == << >>

(***************************************************************************)
(* Configuration                                                           *)
(***************************************************************************)
\* config.Command: the fields the runner's control flow depends on
CommandCatalog ==
    { [name |-> "echo hello", command |-> "echo"],
      [name |-> "false", command |-> "false"],
      [name |-> "Show Docker Status", command |-> "docker"],
      [name |-> "missing tool", command |-> "nosuch"] }

RECURSIVE SeqsUpTo(_, _)
SeqsUpTo(S, n) ==
    IF n = 0 THEN { << >> }
    ELSE LET shorter == SeqsUpTo(S, n - 1)
         IN shorter \cup { Append(s, x) : s \in { t \in shorter : Len(t) = n - 1 }, x \in S }

CommandLists == SeqsUpTo(CommandCatalog, MaxCommands)

\* config.DiscordConfig
DiscordSettings ==
    { [token |-> "", channelId |-> EmptyStr],
      [token |-> "tok", channelId |-> EmptyStr],
      [token |-> "", channelId |-> BadURL],
      [token |-> "", channelId |-> ValidURL] }

\* config.LogConfig, all fields unset
ZeroLogConfig == [Directory |-> "", MaxSize |-> 0, MaxAge |-> 0, MaxBackups |-> 0, Compress |-> FALSE]

\* config.Config
Configs == [discord : DiscordSettings, commands : CommandLists, logs : {ZeroLogConfig}]

\* var config Config, before unmarshalling
ZeroConfig == [discord |-> [token |-> "", channelId |-> EmptyStr], commands |-> << >>, logs |-> ZeroLogConfig]

NoConfig == [discord |-> ZeroConfig.discord, commands |-> << >>, logs |-> ZeroLogConfig, loaded |-> FALSE]
Loaded(c) == [discord |-> c.discord, commands |-> c.commands, logs |-> c.logs, loaded |-> TRUE]

(***************************************************************************)
(* Package config: where the configuration is looked for                   *)
(***************************************************************************)
HomeYaml == "~/.delivr/config.yml"
HomeJson == "~/.delivr/config.json"

\* the paths the model distinguishes: one for --config, one for
\* DELIVR_CONFIG, and the names DefaultConfigPath looks for
Paths == {"custom.json", "env.yml", ".delivr.yml", ".delivr.json",
          "config.yml", "config.json", HomeYaml, HomeJson}

\* what is at a path: nothing, a file that parses to a configuration, or a
\* file that does not parse
NoFile == [exists |-> FALSE, valid |-> FALSE, doc |-> ZeroConfig]
ConfigFile(c) == [exists |-> TRUE, valid |-> TRUE, doc |-> c]
GarbageFile == [exists |-> TRUE, valid |-> FALSE, doc |-> ZeroConfig]

EmptyFS == [p \in Paths |-> NoFile]

\* _, err := os.Stat(p); err == nil
Exists(fs, p) == p \in DOMAIN fs /\ fs[p].exists

\* a search that prefers the JSON dotfile to the YAML one
DefaultConfigPathJsonFirst(fs, home) ==
    IF Exists(fs, ".delivr.json") THEN ".delivr.json"
    ELSE IF Exists(fs, ".delivr.yml") THEN ".delivr.yml"
    ELSE IF Exists(fs, "config.yml") THEN "config.yml"
    ELSE IF Exists(fs, "config.json") THEN "config.json"
    ELSE IF home /\ Exists(fs, HomeYaml) THEN HomeYaml
    ELSE IF home /\ Exists(fs, HomeJson) THEN HomeJson
    ELSE ".delivr.yml"

\* config.DefaultConfigPath
DefaultConfigPath(fs, home) ==
    IF Exists(fs, ".delivr.yml") THEN ".delivr.yml"
    ELSE IF Exists(fs, ".delivr.json") THEN ".delivr.json"
    ELSE IF Exists(fs, "config.yml") THEN "config.yml"
    ELSE IF Exists(fs, "config.json") THEN "config.json"
    ELSE IF home /\ Exists(fs, HomeYaml) THEN HomeYaml
    ELSE IF home /\ Exists(fs, HomeJson) THEN HomeJson
    ELSE ".delivr.yml"

\* a resolution in which DELIVR_CONFIG wins over --config
ResolveConfigPathEnvFirst(customPath, env, fs) ==
    [path |-> IF env.DELIVR_CONFIG # "" THEN env.DELIVR_CONFIG
              ELSE IF customPath # "" THEN customPath
              ELSE DefaultConfigPath(fs, env.home),
     warnings |-> << >>]

\* config.Load, up to the path it will read: the path and the warnings printed
ResolveConfigPath(customPath, env, fs) ==
    LET configPath == IF customPath # "" THEN customPath
                      ELSE IF env.DELIVR_CONFIG # "" THEN env.DELIVR_CONFIG
                      ELSE DefaultConfigPath(fs, env.home)
    IN IF customPath = "" /\ env.DELIVR_CONFIG = "" /\ ~Exists(fs, configPath)
       THEN IF Exists(fs, "config.yml")
            THEN [path |-> "config.yml", warnings |-> <<"config.yml">>]
            ELSE IF Exists(fs, "config.json")
                 THEN [path |-> "config.json", warnings |-> <<"config.json">>]
                 ELSE [path |-> configPath, warnings |-> << >>]
       ELSE [path |-> configPath, warnings |-> << >>]

\* config.Load: err is "nil", "notfound" or "parse"
Load(customPath, env, fs) ==
    LET r == ResolveConfigPath(customPath, env, fs)
    IN IF ~Exists(fs, r.path)
       THEN [err |-> "notfound", path |-> r.path, warnings |-> r.warnings, config |-> ZeroConfig]
       ELSE IF ~fs[r.path].valid
            THEN [err |-> "parse", path |-> r.path, warnings |-> r.warnings, config |-> ZeroConfig]
            ELSE [err |-> "nil", path |-> r.path, warnings |-> r.warnings, config |-> fs[r.path].doc]

\* config.CreateDefaultConfig: the configuration it writes
PlaceholderURL ==
    <<"Y","O","U","R","_","D","I","S","C","O","R","D","_","W","E","B","H","O","O","K",
      "_","U","R","L","_","H","E","R","E">>

DefaultConfig ==
    [discord |-> [token |-> "", channelId |-> PlaceholderURL],
     commands |-> << [name |-> "Show Docker Status", command |-> "docker"],
                     [name |-> "Git Status", command |-> "git"] >>,
     logs |-> [Directory |-> "./logs", MaxSize |-> 10, MaxAge |-> 30, MaxBackups |-> 5, Compress |-> TRUE]]

\* the command lines main is followed for: --config only together with --init
MainFlags ==
    { f \in [daemon : BOOLEAN, init : BOOLEAN, config : {"", "custom.json"},
              out : {"config.json", ".delivr.yml"}] :
        ~f.init => (f.config = "" /\ f.out = "config.json") }

\* the file systems main is followed for: no configuration file at all, or
\* one at .delivr.yml that parses or not
MainFileSystems ==
    {EmptyFS} \cup { [EmptyFS EXCEPT ![".delivr.yml"] = f] :
                       f \in {GarbageFile} \cup { ConfigFile(c) : c \in Configs } }

NoCall == [fn |-> "none"]
NoLogConfig == [config |-> ZeroLogConfig, baseDir |-> "", built |-> FALSE]

NoClient == [webhookURL |-> EmptyStr, isWebhook |-> FALSE, built |-> FALSE]

\* a live process has no exit status yet; a process ended by a signal never gets one
NoStatus == << >>

(***************************************************************************)
(* Events                                                                  *)
(***************************************************************************)
\* error values
Nil == [kind |-> "nil", cause |-> "nil", name |-> ""]
ErrStartNotify == [kind |-> "start_notify", cause |-> "send", name |-> ""]
ErrResultNotify == [kind |-> "result_notify", cause |-> "send", name |-> ""]
ErrExec(e) == [kind |-> "exec", cause |-> e, name |-> ""]
ErrCommandFailed(n, e) == [kind |-> "command_failed", cause |-> e.kind, name |-> n]

\* ev: notify, call, writer, log, run, return, close, fatal, writeconfig
\* cmd: index of the command in the list, 0 for what main does itself
Ev(e, k, c, ok) == [ev |-> e, kind |-> k, cmd |-> c, ok |-> ok, err |-> Nil]
EvReturn(c, r) == [ev |-> "return", kind |-> r.kind, cmd |-> c, ok |-> r.kind = "nil", err |-> r]

Emit(e) == events' = Append(events, e)

IsNotify(e) == e.ev = "notify"
IsCall(e) == e.ev = "call"
IsReturn(e) == e.ev = "return"
IsRun(e) == e.ev = "run"
IsLog(e) == e.ev = "log"
Sent == SelectSeq(events, IsNotify)
Calls == SelectSeq(events, IsCall)
Returns == SelectSeq(events, IsReturn)
Runs == SelectSeq(events, IsRun)
LogWrites == SelectSeq(events, IsLog)


(***************************************************************************)
(* Environment                                                             *)
(***************************************************************************)
\* Client.SendMessage: one POST, no retry; the webhook answers 2xx or not
SendOutcomes == IF client.isWebhook THEN BOOLEAN ELSE {FALSE}

\* command.Run(): how the subprocess of a command can end
\*   "ok" exit status 0, "exit" non-zero exit status, "spawn" the executable was not found
RunOutcomes(c) ==
    CASE c.command = "echo" -> {"ok"}
      [] c.command = "false" -> {"exit"}
      [] c.command = "nosuch" -> {"spawn"}
      [] OTHER -> {"ok", "exit"}

NumCommands == Len(cfg.commands)
Cur == cfg.commands[i]

(***************************************************************************)
(* main                                                                    *)
(***************************************************************************)
Init ==
    /\ pc = "flags"
    /\ flags \in MainFlags
    /\ fsys \in MainFileSystems
    /\ environ = [DELIVR_CONFIG |-> "", home |-> TRUE]
    /\ loadedConfigPath = ""
    /\ stdout = << >>
    /\ logConfig = NoLogConfig
    /\ loggers = << >>
    /\ today = 0
    /\ call = NoCall
    /\ cfg = NoConfig
    /\ client = NoClient
    /\ cmdLogger = "none"
    /\ i = 0
    /\ epc = "idle"
    /\ runErr = "none"
    /\ ret = Nil
    /\ eaRet = Nil
    /\ handler = FALSE
    /\ sigCh = << >>
    /\ nsig = 0
    /\ exitStatus = NoStatus
    /\ events = << >>

\* log.Fatalf: os.Exit(1), deferred calls do not run
Fatal(what) ==
    /\ pc' = "fatal"
    /\ exitStatus' = <<1>>
    /\ Emit(Ev("fatal", what, 0, FALSE))

\* --init that writes the file and then goes on into the normal start
InitConfigContinues ==
    /\ pc = "flags"
    /\ flags.init
    /\ fsys' = [fsys EXCEPT ![flags.out] = ConfigFile(DefaultConfig)]
    /\ pc' = "client"
    /\ Emit(Ev("writeconfig", "default", 0, TRUE))
    /\ UNCHANGED <<flags, cfg, client, cmdLogger, i, epc, runErr, ret, eaRet, handler, sigCh, nsig, exitStatus>>
    /\ UNCHANGED <<environ, loadedConfigPath, stdout, loggerVars, call>>

\* --init: write the default configuration to --out and return
InitConfig ==
    /\ pc = "flags"
    /\ flags.init
    /\ \E ok \in BOOLEAN :
         IF ok
         THEN /\ fsys' = [fsys EXCEPT ![flags.out] = ConfigFile(DefaultConfig)]
              /\ pc' = "exited"
              /\ exitStatus' = <<0>>
              /\ Emit(Ev("writeconfig", "default", 0, TRUE))
         ELSE /\ Fatal("init")
              /\ UNCHANGED fsys
    /\ UNCHANGED <<flags, cfg, client, cmdLogger, i, epc, runErr, ret, eaRet, handler, sigCh, nsig>>
    /\ UNCHANGED <<environ, loadedConfigPath, stdout, loggerVars, call>>

\* cfg, err := config.Load(*configPath)
LoadConfig ==
    /\ pc = "flags"
    /\ ~flags.init
    /\ LET r == Load(flags.config, environ, fsys)
       IN /\ stdout' = stdout \o r.warnings
          /\ IF r.err = "nil"
             THEN /\ cfg' = Loaded(r.config)
                  /\ loadedConfigPath' = r.path
                  /\ pc' = "client"
                  /\ UNCHANGED <<exitStatus, events>>
             ELSE /\ Fatal("config")
                  /\ UNCHANGED <<cfg, loadedConfigPath>>
    /\ UNCHANGED <<flags, client, cmdLogger, i, epc, runErr, ret, eaRet, handler, sigCh, nsig>>
    /\ UNCHANGED <<fsys, environ, loggerVars, call>>

\* discord.NewClient(token, channelID)
NewClientResult(token, channelID) ==
    IF token = "" /\ channelID = EmptyStr
    THEN NoClient
    ELSE IF HasPrefix(channelID, WebhookPrefix)
         THEN [webhookURL |-> channelID, isWebhook |-> TRUE, built |-> TRUE]
         ELSE NoClient

NewClient ==
    /\ pc = "client"
    /\ LET c == NewClientResult(cfg.discord.token, cfg.discord.channelId)
       IN IF c.built
          THEN /\ client' = c
               /\ pc' = "startup"
               /\ UNCHANGED <<exitStatus, events>>
          ELSE /\ Fatal("client")
               /\ UNCHANGED client
    /\ UNCHANGED <<flags, cfg, cmdLogger, i, epc, runErr, ret, eaRet, handler, sigCh, nsig>>
    /\ UNCHANGED <<configVars, loggerVars, call>>

\* a startup message whose failure ends the process
SendStartupFatal ==
    /\ pc = "startup"
    /\ \E ok \in SendOutcomes :
         IF ok
         THEN /\ Emit(Ev("notify", "startup", 0, TRUE))
              /\ pc' = "logger"
              /\ UNCHANGED exitStatus
         ELSE /\ events' = events \o <<Ev("notify", "startup", 0, FALSE), Ev("fatal", "startup", 0, FALSE)>>
              /\ pc' = "fatal"
              /\ exitStatus' = <<1>>
    /\ UNCHANGED <<flags, cfg, client, cmdLogger, i, epc, runErr, ret, eaRet, handler, sigCh, nsig>>
    /\ UNCHANGED <<configVars, loggerVars, call>>

\* startup message: a failed send is only logged
SendStartup ==
    /\ pc = "startup"
    /\ \E ok \in SendOutcomes : Emit(Ev("notify", "startup", 0, ok))
    /\ pc' = "logger"
    /\ UNCHANGED <<flags, cfg, client, cmdLogger, i, epc, runErr, ret, eaRet, handler, sigCh, nsig, exitStatus>>
    /\ UNCHANGED <<configVars, loggerVars, call>>

\* variant: a logger that could not be built is only reported
NewCommandLoggerContinues ==
    /\ pc = "logger"
    /\ \E ok \in BOOLEAN :
         cmdLogger' = IF ok THEN "open" ELSE "none"
    /\ pc' = "loop"
    /\ i' = 1
    /\ UNCHANGED <<flags, cfg, client, epc, runErr, ret, eaRet, handler, sigCh, nsig, exitStatus, events>>
    /\ UNCHANGED <<configVars, loggerVars, call>>

\* logger.NewCommandLogger: fails when the home or log directory is unusable
NewCommandLogger ==
    /\ pc = "logger"
    /\ \E ok \in BOOLEAN :
         IF ok
         THEN /\ cmdLogger' = "open"
              /\ pc' = "loop"
              /\ i' = 1
              /\ UNCHANGED <<exitStatus, events>>
         ELSE /\ Fatal("logger")
              /\ UNCHANGED <<cmdLogger, i>>
    /\ UNCHANGED <<flags, cfg, client, epc, runErr, ret, eaRet, handler, sigCh, nsig>>
    /\ UNCHANGED <<configVars, loggerVars, call>>

\* variant: the next Execute is started while the previous one still has its
\* result message to send
MainCallOverlapping ==
    /\ pc = "loop"
    /\ \/ /\ epc = "idle"
          /\ i <= NumCommands
          /\ Emit(Ev("call", "Execute", i, TRUE))
          /\ UNCHANGED i
       \/ /\ epc = "result"
          /\ i + 1 <= NumCommands
          /\ Emit(Ev("call", "Execute", i + 1, TRUE))
          /\ i' = i + 1
    /\ epc' = "start"
    /\ runErr' = "none"
    /\ UNCHANGED <<pc, flags, cfg, client, cmdLogger, ret, eaRet, handler, sigCh, nsig, exitStatus>>
    /\ UNCHANGED <<configVars, loggerVars, call>>

\* for _, cmd := range cfg.Commands { cmdRunner.Execute(cmd) ...
MainCall ==
    /\ pc = "loop"
    /\ epc = "idle"
    /\ i <= NumCommands
    /\ epc' = "start"
    /\ runErr' = "none"
    /\ Emit(Ev("call", "Execute", i, TRUE))
    /\ UNCHANGED <<pc, flags, cfg, client, cmdLogger, i, ret, eaRet, handler, sigCh, nsig, exitStatus>>
    /\ UNCHANGED <<configVars, loggerVars, call>>

\* variant: the loop is left at the first error
MainReturnBreaks ==
    /\ pc = "loop"
    /\ epc = "returned"
    /\ IF ret.kind # "nil"
       THEN /\ \E ok \in SendOutcomes : Emit(Ev("notify", "error", i, ok))
            /\ i' = NumCommands + 1
       ELSE /\ UNCHANGED events
            /\ i' = i + 1
    /\ epc' = "idle"
    /\ UNCHANGED <<pc, flags, cfg, client, cmdLogger, runErr, ret, eaRet, handler, sigCh, nsig, exitStatus>>
    /\ UNCHANGED <<configVars, loggerVars, call>>

\* variant: an Execute error is fatal
MainReturnFatal ==
    /\ pc = "loop"
    /\ epc = "returned"
    /\ IF ret.kind # "nil"
       THEN /\ Fatal("command")
            /\ UNCHANGED i
       ELSE /\ i' = i + 1
            /\ UNCHANGED <<pc, exitStatus, events>>
    /\ epc' = "idle"
    /\ UNCHANGED <<flags, cfg, client, cmdLogger, runErr, ret, eaRet, handler, sigCh, nsig>>
    /\ UNCHANGED <<configVars, loggerVars, call>>

\* ... if err != nil { log; discord.SendMessage(error) } }
MainReturn ==
    /\ pc = "loop"
    /\ epc = "returned"
    /\ IF ret.kind # "nil"
       THEN \E ok \in SendOutcomes : Emit(Ev("notify", "error", i, ok))
       ELSE UNCHANGED events
    /\ i' = i + 1
    /\ epc' = "idle"
    /\ UNCHANGED <<pc, flags, cfg, client, cmdLogger, runErr, ret, eaRet, handler, sigCh, nsig, exitStatus>>
    /\ UNCHANGED <<configVars, loggerVars, call>>

\* a return without the deferred Close
MainFinishWithoutClose ==
    /\ pc = "loop"
    /\ epc = "idle"
    /\ i > NumCommands
    /\ ~flags.daemon
    /\ \E ok \in SendOutcomes : Emit(Ev("notify", "completion", 0, ok))
    /\ pc' = "exited"
    /\ exitStatus' = <<0>>
    /\ UNCHANGED <<flags, cfg, client, cmdLogger, i, epc, runErr, ret, eaRet, handler, sigCh, nsig>>
    /\ UNCHANGED <<configVars, loggerVars, call>>

\* not in daemon mode: completion message, return; the deferred Close runs
MainFinish ==
    /\ pc = "loop"
    /\ epc = "idle"
    /\ i > NumCommands
    /\ ~flags.daemon
    /\ \E ok \in SendOutcomes :
         events' = events \o <<Ev("notify", "completion", 0, ok), Ev("close", "logger", 0, TRUE)>>
    /\ cmdLogger' = "closed"
    /\ pc' = "exited"
    /\ exitStatus' = <<0>>
    /\ UNCHANGED <<flags, cfg, client, i, epc, runErr, ret, eaRet, handler, sigCh, nsig>>
    /\ UNCHANGED <<configVars, loggerVars, call>>

\* daemon mode: sigCh := make(chan os.Signal, 1); signal.Notify(sigCh, SIGINT, SIGTERM)
DaemonSetup ==
    /\ pc = "loop"
    /\ epc = "idle"
    /\ i > NumCommands
    /\ flags.daemon
    /\ handler' = TRUE
    /\ pc' = "wait"
    /\ UNCHANGED <<flags, cfg, client, cmdLogger, i, epc, runErr, ret, eaRet, sigCh, nsig, exitStatus, events>>
    /\ UNCHANGED <<configVars, loggerVars, call>>

\* variant: the receive from sigCh does not block
DaemonShutdownWithoutSignal ==
    /\ pc = "wait"
    /\ sigCh' = IF sigCh # << >> THEN Tail(sigCh) ELSE sigCh
    /\ \E ok \in SendOutcomes :
         events' = events \o <<Ev("notify", "shutdown", 0, ok), Ev("close", "logger", 0, TRUE)>>
    /\ cmdLogger' = "closed"
    /\ pc' = "exited"
    /\ exitStatus' = <<0>>
    /\ UNCHANGED <<flags, cfg, client, i, epc, runErr, ret, eaRet, handler, nsig>>
    /\ UNCHANGED <<configVars, loggerVars, call>>

\* sig := <-sigCh; shutdown message; return; the deferred Close runs
DaemonShutdown ==
    /\ pc = "wait"
    /\ sigCh # << >>
    /\ sigCh' = Tail(sigCh)
    /\ \E ok \in SendOutcomes :
         events' = events \o <<Ev("notify", "shutdown", 0, ok), Ev("close", "logger", 0, TRUE)>>
    /\ cmdLogger' = "closed"
    /\ pc' = "exited"
    /\ exitStatus' = <<0>>
    /\ UNCHANGED <<flags, cfg, client, i, epc, runErr, ret, eaRet, handler, nsig>>
    /\ UNCHANGED <<configVars, loggerVars, call>>

\* the environment raises SIGINT or SIGTERM: delivered to sigCh when the
\* handler is registered (dropped when the buffer is full), otherwise the
\* default disposition ends the process
Signal ==
    /\ pc \notin {"exited", "fatal", "killed"}
    /\ nsig < MaxSignals
    /\ nsig' = nsig + 1
    /\ IF handler
       THEN /\ sigCh' = IF Len(sigCh) < 1 THEN Append(sigCh, "sig") ELSE sigCh
            /\ UNCHANGED pc
       ELSE /\ pc' = "killed"
            /\ UNCHANGED sigCh
    /\ UNCHANGED <<flags, cfg, client, cmdLogger, i, epc, runErr, ret, eaRet, handler, exitStatus, events>>
    /\ UNCHANGED <<configVars, loggerVars, call>>


(***************************************************************************)
(* Runner.Execute, one action per step of the function                     *)
(***************************************************************************)
\* whether the subprocess writes anything to stdout or stderr
HasOutput(c, outcome) ==
    CASE c.command = "echo" -> TRUE
      [] c.command = "docker" -> TRUE
      [] OTHER -> FALSE

\* variant: only a non-zero exit status counts as a failure
FooterExitOnly(err) == IF err = "exit" THEN "footer_fail" ELSE "footer_ok"

\* the footer written after command.Run()
Footer(err) == IF err # "ok" THEN "footer_fail" ELSE "footer_ok"

\* variant: a failed result message does not replace the run error
ExecuteReturnKeepsRunError(sendOk, err) ==
    IF err # "ok" THEN ErrExec(err)
    ELSE IF ~sendOk THEN ErrResultNotify ELSE Nil

\* variant: the run error is dropped once the result message went out
ExecuteReturnDropsRunError(sendOk, err) ==
    IF ~sendOk THEN ErrResultNotify ELSE Nil

\* the value Execute returns after the result message was sent or not
ExecuteReturn(sendOk, err) ==
    IF ~sendOk THEN ErrResultNotify
    ELSE IF err # "ok" THEN ErrExec(err) ELSE Nil

\* variant: a failed start message is ignored
ExecStartIgnoresError ==
    /\ epc = "start"
    /\ \E ok \in SendOutcomes : Emit(Ev("notify", "start", i, ok))
    /\ epc' = "prepare"
    /\ UNCHANGED <<pc, flags, cfg, client, cmdLogger, i, runErr, ret, eaRet, handler, sigCh, nsig, exitStatus>>
    /\ UNCHANGED <<configVars, loggerVars, call>>

\* start message; a failed send returns at once
ExecStart ==
    /\ epc = "start"
    /\ \E ok \in SendOutcomes :
         IF ok
         THEN /\ Emit(Ev("notify", "start", i, TRUE))
              /\ epc' = "prepare"
              /\ UNCHANGED ret
         ELSE /\ events' = events \o <<Ev("notify", "start", i, FALSE), EvReturn(i, ErrStartNotify)>>
              /\ epc' = "returned"
              /\ ret' = ErrStartNotify
    /\ UNCHANGED <<pc, flags, cfg, client, cmdLogger, i, runErr, eaRet, handler, sigCh, nsig, exitStatus>>
    /\ UNCHANGED <<configVars, loggerVars, call>>

\* a preparation that writes no header
ExecPrepareWithoutHeader ==
    /\ epc = "prepare"
    /\ Emit(Ev("writer", "GetLogWriter", i, TRUE))
    /\ epc' = "run"
    /\ UNCHANGED <<pc, flags, cfg, client, cmdLogger, i, runErr, ret, eaRet, handler, sigCh, nsig, exitStatus>>
    /\ UNCHANGED <<configVars, loggerVars, call>>

\* exec.Command, environment, working directory, GetLogWriter, log header
ExecPrepare ==
    /\ epc = "prepare"
    /\ events' = events \o <<Ev("writer", "GetLogWriter", i, TRUE), Ev("log", "header", i, TRUE)>>
    /\ epc' = "run"
    /\ UNCHANGED <<pc, flags, cfg, client, cmdLogger, i, runErr, ret, eaRet, handler, sigCh, nsig, exitStatus>>
    /\ UNCHANGED <<configVars, loggerVars, call>>

\* command.Run(): the subprocess runs to its end, output goes to the log
ExecRun ==
    /\ epc = "run"
    /\ \E outcome \in RunOutcomes(Cur) :
         /\ runErr' = outcome
         /\ events' = events \o <<Ev("run", outcome, i, outcome = "ok")>>
                        \o (IF HasOutput(Cur, outcome) THEN <<Ev("log", "output", i, TRUE)>> ELSE << >>)
    /\ epc' = "footer"
    /\ UNCHANGED <<pc, flags, cfg, client, cmdLogger, i, ret, eaRet, handler, sigCh, nsig, exitStatus>>
    /\ UNCHANGED <<configVars, loggerVars, call>>

\* log completion status
ExecFooter ==
    /\ epc = "footer"
    /\ Emit(Ev("log", Footer(runErr), i, runErr = "ok"))
    /\ epc' = "result"
    /\ UNCHANGED <<pc, flags, cfg, client, cmdLogger, i, runErr, ret, eaRet, handler, sigCh, nsig, exitStatus>>
    /\ UNCHANGED <<configVars, loggerVars, call>>

\* result message with the log path, then return
ExecResult ==
    /\ epc = "result"
    /\ \E ok \in SendOutcomes :
         /\ events' = events \o <<Ev("notify", "result", i, ok), EvReturn(i, ExecuteReturn(ok, runErr))>>
         /\ ret' = ExecuteReturn(ok, runErr)
    /\ epc' = "returned"
    /\ UNCHANGED <<pc, flags, cfg, client, cmdLogger, i, runErr, eaRet, handler, sigCh, nsig, exitStatus>>
    /\ UNCHANGED <<configVars, loggerVars, call>>

Execute == ExecStart \/ ExecPrepare \/ ExecRun \/ ExecFooter \/ ExecResult

(***************************************************************************)
(* Runner.ExecuteAll, called on a constructed runner                       *)
(***************************************************************************)
InitAll ==
    /\ pc = "executeAll"
    /\ flags = [daemon |-> FALSE, init |-> FALSE, config |-> "", out |-> "config.json"]
    /\ fsys = EmptyFS
    /\ environ = [DELIVR_CONFIG |-> "", home |-> TRUE]
    /\ loadedConfigPath = ""
    /\ stdout = << >>
    /\ logConfig = NoLogConfig
    /\ loggers = << >>
    /\ today = 0
    /\ call = NoCall
    /\ \E c \in Configs :
         /\ NewClientResult(c.discord.token, c.discord.channelId).built
         /\ cfg = Loaded(c)
         /\ client = NewClientResult(c.discord.token, c.discord.channelId)
    /\ cmdLogger = "open"
    /\ i = 1
    /\ epc = "idle"
    /\ runErr = "none"
    /\ ret = Nil
    /\ eaRet = Nil
    /\ handler = FALSE
    /\ sigCh = << >>
    /\ nsig = 0
    /\ exitStatus = NoStatus
    /\ events = << >>

\* for _, cmd := range commands { err := r.Execute(cmd)
ExecuteAllCall ==
    /\ pc = "executeAll"
    /\ epc = "idle"
    /\ i <= NumCommands
    /\ epc' = "start"
    /\ runErr' = "none"
    /\ Emit(Ev("call", "Execute", i, TRUE))
    /\ UNCHANGED <<pc, flags, cfg, client, cmdLogger, i, ret, eaRet, handler, sigCh, nsig, exitStatus>>
    /\ UNCHANGED <<configVars, loggerVars, call>>

\* variant: the loop goes on to the next command after an error
ExecuteAllReturnContinues ==
    /\ pc = "executeAll"
    /\ epc = "returned"
    /\ i' = i + 1
    /\ epc' = "idle"
    /\ UNCHANGED <<pc, eaRet, flags, cfg, client, cmdLogger, runErr, ret, handler, sigCh, nsig, exitStatus, events>>
    /\ UNCHANGED <<configVars, loggerVars, call>>

\* if err != nil { return fmt.Errorf("command '%s' failed: %w", cmd.Name, err) } }
ExecuteAllReturn ==
    /\ pc = "executeAll"
    /\ epc = "returned"
    /\ IF ret.kind # "nil"
       THEN /\ eaRet' = ErrCommandFailed(Cur.name, ret)
            /\ pc' = "executeAllReturned"
            /\ UNCHANGED i
       ELSE /\ i' = i + 1
            /\ UNCHANGED <<pc, eaRet>>
    /\ epc' = "idle"
    /\ UNCHANGED <<flags, cfg, client, cmdLogger, runErr, ret, handler, sigCh, nsig, exitStatus, events>>
    /\ UNCHANGED <<configVars, loggerVars, call>>

\* return nil
ExecuteAllDone ==
    /\ pc = "executeAll"
    /\ epc = "idle"
    /\ i > NumCommands
    /\ eaRet' = Nil
    /\ pc' = "executeAllReturned"
    /\ UNCHANGED <<flags, cfg, client, cmdLogger, i, epc, runErr, ret, handler, sigCh, nsig, exitStatus, events>>
    /\ UNCHANGED <<configVars, loggerVars, call>>

(***************************************************************************)
(* Specifications                                                          *)
(***************************************************************************)
Next ==
    \/ InitConfig
    \/ LoadConfig
    \/ NewClient
    \/ SendStartup
    \/ NewCommandLogger
    \/ MainCall
    \/ ExecStart
    \/ ExecPrepare
    \/ ExecRun
    \/ ExecFooter
    \/ ExecResult
    \/ MainReturn
    \/ MainFinish
    \/ DaemonSetup
    \/ DaemonShutdown
    \/ Signal

Spec == Init /\ [][Next]_vars

NextAll ==
    \/ ExecuteAllCall
    \/ ExecStart
    \/ ExecPrepare
    \/ ExecRun
    \/ ExecFooter
    \/ ExecResult
    \/ ExecuteAllReturn
    \/ ExecuteAllDone

SpecAll == InitAll /\ [][NextAll]_vars

\* main blocked in <-sigCh is resumed once the channel holds a signal
LiveSpec == Spec /\ WF_vars(DaemonShutdown)

TypeOK ==
    /\ pc \in {"flags", "client", "startup", "logger", "loop", "wait", "exited", "fatal", "killed",
               "executeAll", "executeAllReturned"}
    /\ epc \in {"idle", "start", "prepare", "run", "footer", "result", "returned"}
    /\ cmdLogger \in {"none", "open", "closed"}
    /\ runErr \in {"none", "ok", "exit", "spawn"}
    /\ i \in 0..(MaxCommands + 1)
    /\ Len(sigCh) <= 1


(***************************************************************************)
(* Functions followed on their own: the process does nothing else          *)
(***************************************************************************)
MainIdle ==
    /\ pc = "unit"
    /\ flags = [daemon |-> FALSE, init |-> FALSE, config |-> "", out |-> "config.json"]
    /\ cfg = NoConfig
    /\ client = NoClient
    /\ cmdLogger = "none"
    /\ i = 0
    /\ epc = "idle"
    /\ runErr = "none"
    /\ ret = Nil
    /\ eaRet = Nil
    /\ handler = FALSE
    /\ sigCh = << >>
    /\ nsig = 0
    /\ exitStatus = NoStatus
    /\ events = << >>

ConfigIdle ==
    /\ fsys = EmptyFS
    /\ environ = [DELIVR_CONFIG |-> "", home |-> TRUE]
    /\ loadedConfigPath = ""
    /\ stdout = << >>

LoggerIdle ==
    /\ logConfig = NoLogConfig
    /\ loggers = << >>
    /\ today = 0

(***************************************************************************)
(* discord.NewClient on its own                                            *)
(***************************************************************************)
\* the webhook URLs tried: every beginning of a valid URL, the prefix at
\* another place than the start, another scheme
URLSamples ==
    { SubSeq(ValidURL, 1, n) : n \in 0..Len(ValidURL) }
      \cup { BadURL, <<" ">> \o ValidURL, <<"h","t","t","p",":","/","/">> \o ValidURL,
             SubSeq(WebhookPrefix, 1, Len(WebhookPrefix) - 1) \o <<"1","/","t">> }

\* discord.NewClient(webhookURL), the constructor with the URL only
NewWebhookClientResult(webhookURL) ==
    IF webhookURL = EmptyStr
    THEN NoClient
    ELSE IF ~HasPrefix(webhookURL, WebhookPrefix)
         THEN NoClient
         ELSE [webhookURL |-> webhookURL, isWebhook |-> TRUE, built |-> TRUE]

InitClient ==
    /\ MainIdle /\ ConfigIdle /\ LoggerIdle
    /\ \E t \in {"", "tok"}, u \in URLSamples :
         call = [fn |-> "input", token |-> t, url |-> u, result |-> NoClient]

\* client, err := discord.NewClient(token, channelID)
CallNewClient ==
    /\ call.fn = "input"
    /\ LET c == NewClientResult(call.token, call.url)
       IN /\ call' = [call EXCEPT !.fn = "NewClient", !.result = c]
          /\ client' = c
    /\ UNCHANGED <<pc, flags, cfg, cmdLogger, i, epc, runErr, ret, eaRet, handler, sigCh, nsig,
                   exitStatus, events, configVars, loggerVars>>

\* client, err := discord.NewClient(webhookURL)
CallNewWebhookClient ==
    /\ call.fn = "input"
    /\ LET c == NewWebhookClientResult(call.url)
       IN /\ call' = [call EXCEPT !.fn = "NewWebhookClient", !.result = c]
          /\ client' = c
    /\ UNCHANGED <<pc, flags, cfg, cmdLogger, i, epc, runErr, ret, eaRet, handler, sigCh, nsig,
                   exitStatus, events, configVars, loggerVars>>

NextClient == CallNewClient \/ CallNewWebhookClient

SpecClient == InitClient /\ [][NextClient]_vars

(***************************************************************************)
(* config.Load and config.DefaultConfigPath on their own                   *)
(***************************************************************************)
\* the configuration written in the file at p: it names its file, so that a
\* loaded configuration tells which file it was read from
ConfigAt(p) == [ZeroConfig EXCEPT !.discord.token = p]

\* the paths at which a file that does not parse is tried
GarbagePaths == {"custom.json", ".delivr.yml"}

\* every placement of files on the paths, every environment, with and
\* without --config
InitLoad ==
    /\ MainIdle /\ LoggerIdle
    /\ \E present \in SUBSET Paths, garbage \in SUBSET GarbagePaths :
         fsys = [p \in Paths |-> IF p \in garbage THEN GarbageFile
                                 ELSE IF p \in present THEN ConfigFile(ConfigAt(p))
                                 ELSE NoFile]
    /\ environ \in [DELIVR_CONFIG : {"", "env.yml"}, home : BOOLEAN]
    /\ loadedConfigPath = ""
    /\ stdout = << >>
    /\ \E c \in {"", "custom.json"} :
         call = [fn |-> "input", customPath |-> c,
                 result |-> [err |-> "nil", path |-> "", warnings |-> << >>, config |-> ZeroConfig]]

\* cfg, err := config.Load(customPath)
CallLoad ==
    /\ call.fn = "input"
    /\ LET r == Load(call.customPath, environ, fsys)
       IN /\ call' = [call EXCEPT !.fn = "Load", !.result = r]
          /\ stdout' = stdout \o r.warnings
          /\ loadedConfigPath' = IF r.err = "nil" THEN r.path ELSE loadedConfigPath
    /\ UNCHANGED <<mainVars, fsys, environ, loggerVars>>

\* config.DefaultConfigPath()
CallDefaultConfigPath ==
    /\ call.fn = "input"
    /\ call' = [call EXCEPT !.fn = "DefaultConfigPath",
                            !.result.path = DefaultConfigPath(fsys, environ.home)]
    /\ UNCHANGED <<mainVars, configVars, loggerVars>>

NextLoad == CallLoad \/ CallDefaultConfigPath

SpecLoad == InitLoad /\ [][NextLoad]_vars

(***************************************************************************)
(* Runner.Execute: the captured output shown in the result notification    *)
(***************************************************************************)
\* how far around the limit the lengths of the captured output are tried
MaxExtra == 2

\* len(errText) > 1500, errText[:1500]
TruncateLimit == 1500

\* "... (truncated)"
TruncatedSuffix == <<".", ".", ".", " ", "(", "t", "r", "u", "n", "c", "a", "t", "e", "d", ")">>

Rep(x, n) == [k \in 1..n |-> x]

\* a text is a sequence of characters; in a Go string each character is its
\* UTF-8 bytes: one byte for "a", two for "eacute"
RECURSIVE Encode(_)
Encode(chars) ==
    IF chars = << >> THEN << >>
    ELSE IF Len(chars) = 1
         THEN (IF chars[1] = "eacute" THEN <<"0xC3", "0xA9">> ELSE <<chars[1]>>)
         ELSE LET half == Len(chars) \div 2
              IN Encode(SubSeq(chars, 1, half)) \o Encode(SubSeq(chars, half + 1, Len(chars)))

\* the captured outputs tried: n characters of which w take two bytes, the
\* wide ones first or last
Text(n, w, wideLast) ==
    IF wideLast THEN Rep("a", n - w) \o Rep("eacute", w)
    ELSE Rep("eacute", w) \o Rep("a", n - w)

TextLengths == {0} \cup ((TruncateLimit - MaxExtra)..(TruncateLimit + MaxExtra))

\* a truncation that also cuts a text of exactly the limit
TruncateAtLimit(text) ==
    IF Len(text) >= TruncateLimit
    THEN SubSeq(text, 1, TruncateLimit) \o TruncatedSuffix
    ELSE text

\* if len(text) > 1500 { text = text[:1500] + "... (truncated)" }, on the
\* bytes of the string
Truncate(text) ==
    IF Len(text) > TruncateLimit
    THEN SubSeq(text, 1, TruncateLimit) \o TruncatedSuffix
    ELSE text

\* the part of the result message after its first line: the fenced output,
\* the error line, or nothing
ResultBody(failed, stdoutBytes, stderrBytes) ==
    IF failed
    THEN IF Len(stderrBytes) > 0
         THEN [shows |-> "stderr", text |-> Truncate(stderrBytes)]
         ELSE [shows |-> "error", text |-> << >>]
    ELSE IF Len(stdoutBytes) > 0
         THEN [shows |-> "stdout", text |-> Truncate(stdoutBytes)]
         ELSE [shows |-> "nothing", text |-> << >>]

InitTruncate ==
    /\ MainIdle /\ ConfigIdle /\ LoggerIdle
    /\ \E n \in TextLengths, w \in 0..MaxExtra, wideLast \in BOOLEAN, onStderr \in BOOLEAN :
         /\ w <= n
         /\ LET t == Text(n, w, wideLast)
            IN call = [fn |-> "input",
                       stdout |-> IF onStderr THEN <<"o">> ELSE t,
                       stderr |-> IF onStderr THEN t ELSE <<"e">>,
                       failed |-> FALSE,
                       result |-> [shows |-> "nothing", text |-> << >>]]

\* Runner.Execute from command.Run() returning to the result message
CallResultBody ==
    /\ call.fn = "input"
    /\ \E failed \in BOOLEAN :
         call' = [call EXCEPT !.fn = "ResultBody", !.failed = failed,
                              !.result = ResultBody(failed, Encode(call.stdout), Encode(call.stderr))]
    /\ UNCHANGED <<mainVars, configVars, loggerVars>>

NextTruncate == CallResultBody

SpecTruncate == InitTruncate /\ [][NextTruncate]_vars

(***************************************************************************)
(* Package logger: file names                                              *)
(***************************************************************************)
\* the longest command name tried
MaxNameLen == 3

\* the characters sanitizeFilename replaces
Problematic == {" ", "/", "\\", ":", "*", "?", "\"", "<", ">", "|"}

\* the characters names are made of: an ASCII and a non-ASCII letter in both
\* cases, an upper-case letter that has no lower-case form (U+2102), the
\* replaced characters, and characters that are kept
Alphabet == {"A", "a", "Eacute", "eacute", "DoubleStruckC", "-", ".", "1"} \cup Problematic

\* unicode.ToLower
ToLowerRune(c) ==
    CASE c = "A" -> "a"
      [] c = "Eacute" -> "eacute"
      [] c = "Y" -> "y"
      [] c = "M" -> "m"
      [] c = "L" -> "l"
      [] OTHER -> c

\* strings.ToLower
ToLower(s) == [k \in 1..Len(s) |-> ToLowerRune(s[k])]

\* strings.ReplaceAll(s, old, new) for a one-character old
ReplaceAll(s, old, new) == [k \in 1..Len(s) |-> IF s[k] = old THEN new ELSE s[k]]

\* a sanitizeFilename that forgets the last replacement
sanitizeFilenameKeepsBar(name) ==
    LET n0 == ToLower(name)
        n1 == ReplaceAll(n0, " ", "-")
        n2 == ReplaceAll(n1, "/", "-")
        n3 == ReplaceAll(n2, "\\", "-")
        n4 == ReplaceAll(n3, ":", "-")
        n5 == ReplaceAll(n4, "*", "-")
        n6 == ReplaceAll(n5, "?", "-")
        n7 == ReplaceAll(n6, "\"", "-")
        n8 == ReplaceAll(n7, "<", "-")
    IN ReplaceAll(n8, ">", "-")

\* logger.sanitizeFilename
sanitizeFilename(name) ==
    LET n0 == ToLower(name)
        n1 == ReplaceAll(n0, " ", "-")
        n2 == ReplaceAll(n1, "/", "-")
        n3 == ReplaceAll(n2, "\\", "-")
        n4 == ReplaceAll(n3, ":", "-")
        n5 == ReplaceAll(n4, "*", "-")
        n6 == ReplaceAll(n5, "?", "-")
        n7 == ReplaceAll(n6, "\"", "-")
        n8 == ReplaceAll(n7, "<", "-")
        n9 == ReplaceAll(n8, ">", "-")
    IN ReplaceAll(n9, "|", "-")

InitSanitize ==
    /\ MainIdle /\ ConfigIdle /\ LoggerIdle
    /\ \E n \in SeqsUpTo(Alphabet, MaxNameLen) :
         call = [fn |-> "input", name |-> n, result |-> << >>, again |-> << >>]

\* sanitizeFilename(name)
CallSanitize ==
    /\ call.fn = "input"
    /\ call' = [call EXCEPT !.fn = "sanitizeFilename", !.result = sanitizeFilename(call.name)]
    /\ UNCHANGED <<mainVars, configVars, loggerVars>>

\* sanitizeFilename applied to its own result
CallSanitizeAgain ==
    /\ call.fn = "sanitizeFilename"
    /\ call' = [call EXCEPT !.fn = "sanitizeFilename twice", !.again = sanitizeFilename(call.result)]
    /\ UNCHANGED <<mainVars, configVars, loggerVars>>

NextSanitize == CallSanitize \/ CallSanitizeAgain

SpecSanitize == InitSanitize /\ [][NextSanitize]_vars

(***************************************************************************)
(* Package logger: the CommandLogger on its own                            *)
(***************************************************************************)
\* how many midnights pass while the logger is in use
MaxDays == 1

\* filepath.Join(homeDir, ".delivr", "logs")
DefaultLogDir == "~/.delivr/logs"

\* the logging settings tried: each one unset or set
LogConfigs ==
    [Directory : {"", "./logs"}, MaxSize : {0, 20}, MaxAge : {0, 7}, MaxBackups : {0, 3},
     Compress : BOOLEAN]

\* the command names the writers are asked for: three that sanitize to the
\* same token, one of its own, and the empty name
LoggerNames == { <<"A", " ">>, <<"a", "-">>, <<"a", "|">>, <<"1">>, << >> }

\* logger.NewCommandLogger(cfg): the logger, or the error
NewCommandLoggerResult(c, homeOk, mkdirOk) ==
    IF c.Directory = "" /\ ~homeOk
    THEN [err |-> "home", logger |-> NoLogConfig]
    ELSE LET d == [Directory |-> IF c.Directory = "" THEN DefaultLogDir ELSE c.Directory,
                   MaxSize |-> IF c.MaxSize = 0 THEN 10 ELSE c.MaxSize,
                   MaxAge |-> IF c.MaxAge = 0 THEN 30 ELSE c.MaxAge,
                   MaxBackups |-> IF c.MaxBackups = 0 THEN 5 ELSE c.MaxBackups,
                   Compress |-> c.Compress]
         IN IF ~mkdirOk
            THEN [err |-> "mkdir", logger |-> NoLogConfig]
            ELSE [err |-> "nil", logger |-> [config |-> d, baseDir |-> d.Directory, built |-> TRUE]]

\* filepath.Join(baseDir, fmt.Sprintf("%s-%s.log", safeCommandName, today))
LogPath(baseDir, token, day) == [dir |-> baseDir, token |-> token, day |-> day]

\* a cache keyed by the command name as given
CacheKeyRawName(commandName) == commandName

\* safeCommandName, the key of l.loggers
CacheKey(commandName) == sanitizeFilename(commandName)

\* &lumberjack.Logger{...}; id tells the writers apart
NewWriter(l, token, day, id) ==
    [id |-> id,
     Filename |-> LogPath(l.baseDir, token, day),
     MaxSize |-> l.config.MaxSize,
     MaxBackups |-> l.config.MaxBackups,
     MaxAge |-> l.config.MaxAge,
     Compress |-> l.config.Compress]

\* CommandLogger.GetLogPath
GetLogPath(l, commandName, day) ==
    LogPath(l.baseDir, sanitizeFilename(commandName), day)

InitLogger ==
    /\ MainIdle
    /\ fsys = EmptyFS
    /\ environ \in [DELIVR_CONFIG : {""}, home : BOOLEAN]
    /\ loadedConfigPath = ""
    /\ stdout = << >>
    /\ LoggerIdle
    /\ \E c \in LogConfigs : call = [fn |-> "input", cfg |-> c, err |-> "nil"]

\* cmdLogger, err := logger.NewCommandLogger(cfg)
CallNewCommandLogger ==
    /\ call.fn = "input"
    /\ \E mkdirOk \in BOOLEAN :
         LET r == NewCommandLoggerResult(call.cfg, environ.home, mkdirOk)
         IN /\ logConfig' = r.logger
            /\ call' = [fn |-> "NewCommandLogger", cfg |-> call.cfg, err |-> r.err]
    /\ UNCHANGED <<mainVars, configVars, loggers, today>>

\* l.GetLogWriter(commandName)
CallGetLogWriter ==
    /\ logConfig.built
    /\ \E name \in LoggerNames :
         LET key == CacheKey(name)
         IN IF key \in DOMAIN loggers
            THEN /\ call' = [fn |-> "GetLogWriter", cfg |-> call.cfg, name |-> name,
                             result |-> loggers[key]]
                 /\ UNCHANGED loggers
            ELSE LET w == NewWriter(logConfig, key, today, Cardinality(DOMAIN loggers) + 1)
                 IN /\ loggers' = loggers @@ (key :> w)
                    /\ call' = [fn |-> "GetLogWriter", cfg |-> call.cfg, name |-> name,
                                result |-> w]
    /\ UNCHANGED <<mainVars, configVars, logConfig, today>>

\* l.GetLogPath(commandName)
CallGetLogPath ==
    /\ logConfig.built
    /\ \E name \in LoggerNames :
         call' = [fn |-> "GetLogPath", cfg |-> call.cfg, name |-> name,
                  result |-> GetLogPath(logConfig, name, today)]
    /\ UNCHANGED <<mainVars, configVars, loggerVars>>

\* midnight: time.Now() is in the next day
Tick ==
    /\ today < MaxDays
    /\ today' = today + 1
    /\ UNCHANGED <<mainVars, configVars, logConfig, loggers, call>>

NextLogger == CallNewCommandLogger \/ CallGetLogWriter \/ CallGetLogPath \/ Tick

SpecLogger == InitLogger /\ [][NextLogger]_vars

(***************************************************************************)
(* Runner.Execute: the environment of the subprocess                       *)
(***************************************************************************)
\* an environment entry "KEY=value"
EnvEntry(k, v) == [key |-> k, value |-> v]

\* r.dockerHost: unset, or one of two hosts
DockerHosts == {"", "tcp://docker:2375", "unix:///var/run/docker.sock"}

\* cmd.Command
Executables == {"docker", "Docker", "docker-compose", "echo"}

\* cmd.EnvVars
EnvVarLists ==
    { << >>,
      <<EnvEntry("FOO", "1")>>,
      <<EnvEntry("FOO", "1"), EnvEntry("BAR", "2")>>,
      <<EnvEntry("DOCKER_HOST", "tcp://other:2375")>> }

\* os.Environ(): with and without a DOCKER_HOST of the process itself
OsEnvirons ==
    { <<EnvEntry("PATH", "/bin")>>,
      <<EnvEntry("PATH", "/bin"), EnvEntry("DOCKER_HOST", "tcp://inherited:2375")>> }

\* command.Env as exec.Command leaves it: nil, the subprocess inherits
NilEnv == [isNil |-> TRUE, entries |-> << >>]
EnvOf(entries) == [isNil |-> FALSE, entries |-> entries]

\* command.Env after the Docker host block and the EnvVars block
CommandEnv(dockerHost, executable, envVars, osEnv) ==
    LET afterDocker == IF dockerHost # "" /\ executable = "docker"
                       THEN EnvOf(Append(osEnv, EnvEntry("DOCKER_HOST", dockerHost)))
                       ELSE NilEnv
    IN IF Len(envVars) > 0
       THEN EnvOf(osEnv \o envVars)
       ELSE afterDocker

\* the entries the subprocess is started with: command.Env, or the
\* environment of the process when command.Env is nil
SubprocessEnv(env, osEnv) == IF env.isNil THEN osEnv ELSE env.entries

InitEnv ==
    /\ MainIdle /\ ConfigIdle /\ LoggerIdle
    /\ \E h \in DockerHosts, x \in Executables, v \in EnvVarLists, o \in OsEnvirons :
         call = [fn |-> "input", dockerHost |-> h, executable |-> x, envVars |-> v,
                 osEnv |-> o, result |-> << >>]

\* Runner.Execute from exec.Command to the start of the subprocess
CallCommandEnv ==
    /\ call.fn = "input"
    /\ call' = [call EXCEPT !.fn = "CommandEnv",
                            !.result = SubprocessEnv(CommandEnv(call.dockerHost, call.executable,
                                                                call.envVars, call.osEnv),
                                                     call.osEnv)]
    /\ UNCHANGED <<mainVars, configVars, loggerVars>>

NextEnv == CallCommandEnv

SpecEnv == InitEnv /\ [][NextEnv]_vars

(***************************************************************************)
(* Package config: Save, CreateDefaultConfig and the way back through Load *)
(***************************************************************************)
\* the paths a default configuration is written to
OutPaths == {"out.json", "out.yml", "out.yaml", "out.YML", "out.conf"}

\* filepath.Ext(path)
Ext(path) ==
    CASE path \in {"out.json", "custom.json", ".delivr.json", "config.json", HomeJson}
           -> <<".", "j", "s", "o", "n">>
      [] path \in {"out.yml", "env.yml", ".delivr.yml", "config.yml", HomeYaml}
           -> <<".", "y", "m", "l">>
      [] path = "out.yaml" -> <<".", "y", "a", "m", "l">>
      [] path = "out.YML" -> <<".", "Y", "M", "L">>
      [] path = "out.conf" -> <<".", "c", "o", "n", "f">>
      [] OTHER -> << >>

\* config.isYAMLFile
isYAMLFile(path) ==
    ToLower(Ext(path)) \in { <<".", "y", "m", "l">>, <<".", "y", "a", "m", "l">> }

FormatOf(path) == IF isYAMLFile(path) THEN "yaml" ELSE "json"

\* a Go slice: nil, or a sequence of items
NilSlice == [isNil |-> TRUE, items |-> << >>]
Slice(items) == [isNil |-> FALSE, items |-> items]

\* a pointer to a struct: nil (v is then not looked at), or the struct
NilPtr(zero) == [isNil |-> TRUE, v |-> zero]
Ptr(v) == [isNil |-> FALSE, v |-> v]

\* DockerConfig{} and what a key that is not in the document leaves behind
ZeroDockerConfig == [Host |-> ""]

\* a key of a document: not there, there with null, or there with a value
Absent == [present |-> FALSE, null |-> FALSE]
Null == [present |-> TRUE, null |-> TRUE]
Present(v) == [present |-> TRUE, null |-> FALSE, value |-> v]

\* an omitempty that leaves every such key out
OmitEmptyAlways(v, zero) == Absent

\* a key tagged omitempty: left out when the field has its zero value
OmitEmpty(v, zero) == IF v = zero THEN Absent ELSE Present(v)

\* a slice tagged omitempty: left out when it has no items
OmitEmptySlice(s) == IF Len(s.items) = 0 THEN Absent ELSE Present(s.items)

\* a slice without omitempty: JSON writes null for nil, YAML writes []
EncodeSlice(s, format) ==
    IF s.isNil /\ format = "json" THEN Null ELSE Present(s.items)

\* config.CreateDefaultConfig: defaultConfig
defaultConfig ==
    [WorkingDir |-> "",
     Docker |-> Ptr([Host |-> "unix:///var/run/docker.sock"]),
     Logs |-> Ptr([Directory |-> "./logs", MaxSize |-> 10, MaxAge |-> 30, MaxBackups |-> 5,
                   Compress |-> TRUE]),
     Discord |-> [ChannelID |-> PlaceholderURL],
     Commands |-> Slice(<< [Name |-> "Show Docker Status",
                           Description |-> "Lists all running Docker containers",
                           Command |-> "docker", Args |-> Slice(<<"ps", "-a">>),
                           Dir |-> "", EnvVars |-> NilSlice],
                          [Name |-> "Git Status",
                           Description |-> "Shows the working tree status",
                           Command |-> "git", Args |-> Slice(<<"status">>),
                           Dir |-> "", EnvVars |-> NilSlice] >>)]

\* what json.MarshalIndent and yaml.Marshal write for a Command
MarshalCommand(c) ==
    [name |-> Present(c.Name),
     description |-> Present(c.Description),
     command |-> Present(c.Command),
     args |-> OmitEmptySlice(c.Args),
     dir |-> OmitEmpty(c.Dir, ""),
     envVars |-> OmitEmptySlice(c.EnvVars)]

\* what json.MarshalIndent and yaml.Marshal write for a Config
Marshal(c, format) ==
    [format |-> format,
     discord |-> Present([channelId |-> Present(c.Discord.ChannelID)]),
     docker |-> IF c.Docker.isNil THEN Absent
                ELSE Present([host |-> OmitEmpty(c.Docker.v.Host, "")]),
     logs |-> IF c.Logs.isNil THEN Absent
              ELSE Present([directory |-> OmitEmpty(c.Logs.v.Directory, ""),
                            maxSize |-> OmitEmpty(c.Logs.v.MaxSize, 0),
                            maxAge |-> OmitEmpty(c.Logs.v.MaxAge, 0),
                            maxBackups |-> OmitEmpty(c.Logs.v.MaxBackups, 0),
                            compress |-> OmitEmpty(c.Logs.v.Compress, FALSE)]),
     commands |-> EncodeSlice([isNil |-> c.Commands.isNil,
                               items |-> [k \in 1..Len(c.Commands.items) |->
                                             MarshalCommand(c.Commands.items[k])]],
                              format),
     workingDir |-> OmitEmpty(c.WorkingDir, "")]

\* the value a key leaves in a field, the zero value when the key is missing
FieldOr(k, zero) == IF k.present /\ ~k.null THEN k.value ELSE zero

\* the slice a key leaves in a field
DecodeSlice(k) == IF k.present /\ ~k.null THEN Slice(k.value) ELSE NilSlice

UnmarshalCommand(d) ==
    [Name |-> FieldOr(d.name, ""),
     Description |-> FieldOr(d.description, ""),
     Command |-> FieldOr(d.command, ""),
     Args |-> DecodeSlice(d.args),
     Dir |-> FieldOr(d.dir, ""),
     EnvVars |-> DecodeSlice(d.envVars)]

\* json.Unmarshal / yaml.Unmarshal into var config Config: a YAML document
\* is no JSON
Unmarshal(d, format) ==
    IF format = "json" /\ d.format = "yaml"
    THEN [err |-> "parse",
          config |-> [WorkingDir |-> "", Docker |-> NilPtr(ZeroDockerConfig),
                      Logs |-> NilPtr(ZeroLogConfig), Discord |-> [ChannelID |-> EmptyStr],
                      Commands |-> NilSlice]]
    ELSE [err |-> "nil",
          config |->
            [WorkingDir |-> FieldOr(d.workingDir, ""),
             Docker |-> IF d.docker.present /\ ~d.docker.null
                        THEN Ptr([Host |-> FieldOr(d.docker.value.host, "")])
                        ELSE NilPtr(ZeroDockerConfig),
             Logs |-> IF d.logs.present /\ ~d.logs.null
                      THEN Ptr([Directory |-> FieldOr(d.logs.value.directory, ""),
                                MaxSize |-> FieldOr(d.logs.value.maxSize, 0),
                                MaxAge |-> FieldOr(d.logs.value.maxAge, 0),
                                MaxBackups |-> FieldOr(d.logs.value.maxBackups, 0),
                                Compress |-> FieldOr(d.logs.value.compress, FALSE)])
                      ELSE NilPtr(ZeroLogConfig),
             Discord |-> [ChannelID |-> IF d.discord.present /\ ~d.discord.null
                                        THEN FieldOr(d.discord.value.channelId, EmptyStr)
                                        ELSE EmptyStr],
             Commands |-> IF d.commands.present /\ ~d.commands.null
                          THEN Slice([k \in 1..Len(d.commands.value) |->
                                         UnmarshalCommand(d.commands.value[k])])
                          ELSE NilSlice]]

\* config.Save: the file at path afterwards. The format is chosen from the
\* path by isYAMLFile, here as in Load, so the file is kept as what Load's
\* parser of that format reads from the bytes written
Save(config, path) ==
    LET parsed == Unmarshal(Marshal(config, FormatOf(path)), FormatOf(path))
    IN [exists |-> TRUE, valid |-> parsed.err = "nil", doc |-> parsed.config]

InitRoundTrip ==
    /\ MainIdle /\ LoggerIdle
    /\ \E before \in {NoFile, GarbageFile}, dotfile \in {NoFile, ConfigFile(ConfigAt(".delivr.yml"))},
          path \in OutPaths :
         /\ fsys = [p \in Paths \cup OutPaths |->
                       IF p = path THEN before ELSE IF p = ".delivr.yml" THEN dotfile ELSE NoFile]
         /\ call = [fn |-> "input", path |-> path, err |-> "nil",
                    result |-> [err |-> "nil", path |-> "", warnings |-> << >>, config |-> ZeroConfig]]
    /\ environ \in [DELIVR_CONFIG : {"", "env.yml"}, home : BOOLEAN]
    /\ loadedConfigPath = ""
    /\ stdout = << >>

\* config.CreateDefaultConfig(path): the file is written, or it is not
CallCreateDefaultConfig ==
    /\ call.fn = "input"
    /\ \E ok \in BOOLEAN :
         IF ok
         THEN /\ fsys' = [fsys EXCEPT ![call.path] = Save(defaultConfig, call.path)]
              /\ call' = [call EXCEPT !.fn = "CreateDefaultConfig"]
         ELSE /\ call' = [call EXCEPT !.fn = "CreateDefaultConfig", !.err = "write"]
              /\ UNCHANGED fsys
    /\ UNCHANGED <<mainVars, environ, loadedConfigPath, stdout, loggerVars>>

\* config.Load(path) on the path that was written
CallLoadWritten ==
    /\ call.fn = "CreateDefaultConfig"
    /\ call.err = "nil"
    /\ LET r == Load(call.path, environ, fsys)
       IN /\ call' = [call EXCEPT !.fn = "Load", !.result = r]
          /\ stdout' = stdout \o r.warnings
          /\ loadedConfigPath' = IF r.err = "nil" THEN r.path ELSE loadedConfigPath
    /\ UNCHANGED <<mainVars, fsys, environ, loggerVars>>

NextRoundTrip == CallCreateDefaultConfig \/ CallLoadWritten

SpecRoundTrip == InitRoundTrip /\ [][NextRoundTrip]_vars

(***************************************************************************)
(* Properties                                                              *)
(***************************************************************************)
\* Execute is called on the commands 1, 2, ... in list order, once each
CallsInListOrder == \A k \in 1..Len(Calls) : Calls[k].cmd = k

\* C1: ExecuteAll calls Execute in list order; after the first Execute that
\* returns an error no later command is run and ExecuteAll returns an error
\* naming that command; it returns nil only if every Execute returned nil.
C1_ExecuteAllStopsAtFirstError ==
    /\ CallsInListOrder
    /\ \A k \in 1..Len(Returns) :
         /\ Returns[k].cmd = k
         /\ ~Returns[k].ok => /\ Len(Calls) = k
                              /\ \A p \in 1..Len(events) : events[p].cmd <= k
    /\ pc = "executeAllReturned" =>
         /\ eaRet = Nil <=> (\A k \in 1..Len(Returns) : Returns[k].ok)
         /\ eaRet = Nil => Len(Returns) = NumCommands
         /\ eaRet # Nil =>
              /\ eaRet.kind = "command_failed"
              /\ eaRet.name = cfg.commands[Len(Returns)].name
              /\ eaRet.cause = Returns[Len(Returns)].err.kind

C1_Witness ==
    /\ pc = "executeAllReturned"
    /\ eaRet # Nil
    /\ Len(Calls) = 1
    /\ NumCommands = 2

\* C2: in main's loop Execute is invoked exactly once for every command of
\* the configuration, in list order, whatever earlier commands returned.
C2_MainRunsEveryCommand ==
    /\ CallsInListOrder
    /\ pc = "loop" => Len(Calls) = (IF epc = "idle" THEN i - 1 ELSE i)
    /\ (pc \in {"wait", "exited"} /\ cmdLogger # "none") => Len(Calls) = NumCommands

C2_Witness ==
    /\ pc = "exited"
    /\ NumCommands = 2
    /\ Len(Returns) = 2
    /\ ~Returns[1].ok
    /\ Len(Calls) = 2


\* helpers for the properties
AllSendsOk == \A k \in 1..Len(Sent) : Sent[k].ok
NotifyKinds == [k \in 1..Len(Sent) |-> <<Sent[k].kind, Sent[k].cmd>>]
LogKinds == [k \in 1..Len(LogWrites) |-> <<LogWrites[k].kind, LogWrites[k].cmd>>]
Positions(ev, kind, c) ==
    { p \in 1..Len(events) : events[p].ev = ev /\ events[p].kind = kind /\ events[p].cmd = c }
\* how command.Run() of the c-th command ended, "none" when it was not run
RunKind(c) ==
    LET S == { p \in 1..Len(events) : events[p].ev = "run" /\ events[p].cmd = c }
    IN IF S = {} THEN "none" ELSE events[CHOOSE p \in S : TRUE].kind
SentOk(kind, c) == \E p \in Positions("notify", kind, c) : events[p].ok

C3_Scenario ==
    /\ cfg.loaded
    /\ cfg.commands = << [name |-> "echo hello", command |-> "echo"],
                         [name |-> "false", command |-> "false"] >>
    /\ ~flags.daemon

\* C3 as stated: with the commands `echo hello` and `false` and daemon mode
\* off, the process sends a start and a result notification per command,
\* four notifications in total, logs both outcomes and exits with status 0.
C3_FourNotificationsInTotal ==
    (C3_Scenario /\ pc = "exited" /\ AllSendsOk) =>
        /\ \A c \in 1..2 : SentOk("start", c) /\ SentOk("result", c)
        /\ Len(Sent) = 4
        /\ LogKinds = << <<"header", 1>>, <<"output", 1>>, <<"footer_ok", 1>>,
                         <<"header", 2>>, <<"footer_fail", 2>> >>
        /\ exitStatus = <<0>>

\* C3 amended: in that scenario no command failure ends the process, it
\* exits with status 0, and when every send succeeds it has sent seven
\* notifications: the startup message, start and result of each command
\* (four), the error message for the failed second command and the
\* completion message; both outcomes are in the log.
C3_SevenNotificationsInTotal ==
    /\ (C3_Scenario /\ cmdLogger # "none") => pc # "fatal"
    /\ (C3_Scenario /\ pc = "exited") => exitStatus = <<0>>
    /\ (C3_Scenario /\ pc = "exited" /\ AllSendsOk) =>
        /\ NotifyKinds = << <<"startup", 0>>, <<"start", 1>>, <<"result", 1>>,
                            <<"start", 2>>, <<"result", 2>>, <<"error", 2>>,
                            <<"completion", 0>> >>
        /\ LogKinds = << <<"header", 1>>, <<"output", 1>>, <<"footer_ok", 1>>,
                         <<"header", 2>>, <<"footer_fail", 2>> >>

C3_Witness ==
    /\ C3_Scenario
    /\ pc = "exited"
    /\ AllSendsOk
    /\ Len(Sent) = 7
    /\ RunKind(2) = "exit"

\* C4: when the start notification cannot be sent, Execute returns the
\* error at once: no log writer is obtained, nothing is logged, the
\* subprocess is not run and no result notification is sent.
C4_StartFailureAborts ==
    \A p \in 1..Len(events) :
        (events[p].ev = "notify" /\ events[p].kind = "start" /\ ~events[p].ok) =>
            /\ p < Len(events)
            /\ events[p + 1] = EvReturn(events[p].cmd, ErrStartNotify)
            /\ \A q \in 1..Len(events) :
                 events[q].cmd = events[p].cmd =>
                    /\ events[q].ev \notin {"writer", "log", "run"}
                    /\ ~(events[q].ev = "notify" /\ events[q].kind = "result")

C4_Witness ==
    /\ pc = "exited"
    /\ NumCommands = 2
    /\ Positions("notify", "start", 1) # {}
    /\ ~SentOk("start", 1)
    /\ RunKind(2) = "ok"

\* C5: when the result notification cannot be sent, Execute returns the
\* notification error, whether the subprocess succeeded or failed.
C5_ResultFailureIsReturned ==
    \A p \in 1..Len(events) :
        (events[p].ev = "notify" /\ events[p].kind = "result" /\ ~events[p].ok) =>
            /\ p < Len(events)
            /\ events[p + 1] = EvReturn(events[p].cmd, ErrResultNotify)

C5_Witness ==
    /\ Len(Returns) = 2
    /\ RunKind(1) = "ok" /\ ~SentOk("result", 1) /\ Returns[1].err = ErrResultNotify
    /\ RunKind(2) = "exit" /\ ~SentOk("result", 2) /\ Returns[2].err = ErrResultNotify

\* C6: when both the start and the result notification were sent, Execute
\* returns the error of command.Run(): nil exactly when the subprocess ran
\* and exited successfully.
C6_ReturnsRunError ==
    \A k \in 1..Len(Returns) :
        LET c == Returns[k].cmd
        IN (SentOk("start", c) /\ SentOk("result", c)) =>
              /\ RunKind(c) # "none"
              /\ Returns[k].err = (IF RunKind(c) = "ok" THEN Nil ELSE ErrExec(RunKind(c)))
              /\ Returns[k].err = Nil <=> RunKind(c) = "ok"

C6_Witness ==
    /\ Len(Returns) = 2
    /\ AllSendsOk
    /\ Returns[1].err = Nil
    /\ Returns[2].err = ErrExec("exit")

\* C7: when the executable of a command does not exist, command.Run() fails
\* to spawn it; Execute then writes the failure footer, still attempts the
\* result notification and returns an error (the execution error when the
\* notification went out).
C7_SpawnFailure ==
    /\ \A p \in 1..Len(events) :
        (events[p].ev = "run" /\ cfg.commands[events[p].cmd].command = "nosuch") =>
            events[p].kind = "spawn"
    /\ \A p \in 1..Len(events) :
        (events[p].ev = "run" /\ events[p].kind = "spawn") =>
            LET c == events[p].cmd
            IN /\ Len(events) >= p + 1 => events[p + 1] = Ev("log", "footer_fail", c, FALSE)
               /\ Len(events) >= p + 2 =>
                    /\ events[p + 2].ev = "notify"
                    /\ events[p + 2].kind = "result"
                    /\ events[p + 2].cmd = c
               /\ Len(events) >= p + 3 =>
                    /\ events[p + 3].ev = "return"
                    /\ events[p + 3].cmd = c
                    /\ events[p + 3].err # Nil
                    /\ events[p + 2].ok => events[p + 3].err = ErrExec("spawn")
    /\ (epc = "returned" /\ runErr = "spawn") =>
            /\ Positions("log", "footer_fail", i) # {}
            /\ Positions("notify", "result", i) # {}
            /\ ret # Nil

C7_Witness ==
    /\ epc = "returned"
    /\ Cur.command = "nosuch"
    /\ runErr = "spawn"
    /\ ret = ErrExec("spawn")
    /\ Positions("log", "footer_fail", i) # {}

\* the events that belong to a command, in order
IsCommandEvent(e) == e.cmd > 0
CommandEvents == SelectSeq(events, IsCommandEvent)

\* C8: commands never overlap: every step of a command comes before every
\* step of the next one, and the start notification of a command is only
\* attempted after Execute of the previous command has returned.
C8_CommandsNeverOverlap ==
    /\ \A k \in 1..(Len(CommandEvents) - 1) : CommandEvents[k].cmd <= CommandEvents[k + 1].cmd
    /\ \A q \in 1..Len(events) :
        (events[q].ev = "notify" /\ events[q].kind = "start" /\ events[q].cmd > 1) =>
            \E p \in 1..(q - 1) : events[p].ev = "return" /\ events[p].cmd = events[q].cmd - 1

C8_Witness ==
    /\ NumCommands = 2
    /\ RunKind(1) # "none"
    /\ RunKind(2) # "none"
    /\ Len(Returns) = 2

IsShutdown(e) == e.kind = "shutdown"
ShutdownSent == SelectSeq(Sent, IsShutdown)

\* the state part of C9
C9_ShutdownOnlyAfterSignal ==
    /\ Len(ShutdownSent) <= 1
    /\ Len(ShutdownSent) = 1 =>
         /\ flags.daemon
         /\ nsig > 0
         /\ Len(Calls) = NumCommands
         /\ Len(Returns) = NumCommands
         /\ Sent[Len(Sent)].kind = "shutdown"
         /\ pc = "exited"
    /\ (flags.daemon /\ cmdLogger # "none" /\ nsig = 0) => pc \notin {"exited", "fatal", "killed"}
    /\ (flags.daemon /\ cmdLogger # "none" /\ pc = "exited") => Len(ShutdownSent) = 1

\* C9: in daemon mode, after the command pass the process stays alive and
\* sends no shutdown notification until a signal is received; once sigCh
\* holds a signal it attempts the shutdown notification exactly once and
\* exits; the shutdown notification never precedes a command.
C9_DaemonWaitsForSignal ==
    /\ []C9_ShutdownOnlyAfterSignal
    /\ (pc = "wait" /\ sigCh # << >>) ~> (pc = "exited" /\ Len(ShutdownSent) = 1)

C9_Witness ==
    /\ flags.daemon
    /\ pc = "exited"
    /\ NumCommands = 2
    /\ Len(ShutdownSent) = 1
    /\ nsig = 2

IsFatal(e) == e.ev = "fatal"

\* C10: when loading the configuration fails, the webhook client is
\* rejected or the logger cannot be built, the process ends with a fatal
\* error and no command is executed: Execute is only ever called with a
\* loaded configuration, a client holding a webhook URL and a logger.
C10_StartupFailureRunsNothing ==
    /\ (Calls # << >> \/ Runs # << >> \/ pc \in {"loop", "wait"}) =>
         /\ cfg.loaded
         /\ client.built
         /\ HasPrefix(client.webhookURL, WebhookPrefix)
         /\ cmdLogger # "none"
         /\ SelectSeq(events, IsFatal) = << >>
    /\ pc = "fatal" =>
         /\ exitStatus = <<1>>
         /\ Calls = << >>
         /\ Runs = << >>
    /\ SelectSeq(events, IsFatal) # << >> => pc = "fatal"

C10_Witness ==
    /\ pc = "fatal"
    /\ events[Len(events)] = Ev("fatal", "logger", 0, FALSE)
    /\ cfg.commands # << >>
    /\ Calls = << >>


(***************************************************************************)
(* --init                                                                  *)
(***************************************************************************)
\* what a process started with --init has done so far is at most: written
\* the default configuration, or failed to
InitOnlyEvents ==
    \A k \in 1..Len(events) :
        \/ events[k].ev = "writeconfig"
        \/ (IsFatal(events[k]) /\ events[k].kind = "init")

\* C11: with --init the process writes the default configuration to the
\* --out path and exits: it loads no configuration, builds no Discord client
\* and no logger, sends no notification and runs no command, whatever
\* --daemon and --config say, and it touches no file but the one at --out.
C11_InitOnlyWritesDefaultConfig ==
    /\ [](flags.init =>
            /\ pc \in {"flags", "exited", "fatal", "killed"}
            /\ InitOnlyEvents
            /\ cfg = NoConfig /\ loadedConfigPath = "" /\ stdout = << >>
            /\ client = NoClient
            /\ cmdLogger = "none"
            /\ (pc = "exited" => /\ fsys[flags.out] = ConfigFile(DefaultConfig)
                                 /\ exitStatus = <<0>>))
    /\ [][flags.init => \A p \in Paths \ {flags.out} : fsys'[p] = fsys[p]]_vars

\* --init together with --daemon and --config, where a configuration exists
\* that would have loaded: the default configuration was written over it
\* and the process returned
C11_Witness ==
    /\ flags.init /\ flags.daemon /\ flags.config # "" /\ flags.out = ".delivr.yml"
    /\ pc = "exited"
    /\ Len(events) = 1 /\ events[1].ev = "writeconfig"
    /\ fsys[".delivr.yml"] = ConfigFile(DefaultConfig)


(***************************************************************************)
(* Client construction                                                     *)
(***************************************************************************)
\* u begins with https://discord.com/api/webhooks/, character by character
StartsWithWebhookPrefix(u) ==
    /\ Len(u) >= Len(WebhookPrefix)
    /\ \A k \in 1..Len(WebhookPrefix) : u[k] = WebhookPrefix[k]

\* C12: both constructors of the Discord client return a client exactly
\* when the webhook URL starts with https://discord.com/api/webhooks/; an
\* empty URL and a URL without the prefix yield no client; a client that
\* exists holds the URL it was given, which has the prefix.
C12_ClientIffWebhookPrefix ==
    /\ call.fn \in {"NewClient", "NewWebhookClient"} =>
         /\ call.result.built <=> StartsWithWebhookPrefix(call.url)
         /\ call.result.built => call.result.webhookURL = call.url
         /\ ~call.result.built => call.result = NoClient
         /\ call.url = EmptyStr => ~call.result.built
    /\ client.built => StartsWithWebhookPrefix(client.webhookURL)

\* a URL that holds the prefix, but not at its start, was rejected although
\* a token was given
C12_Witness ==
    /\ call.fn = "NewClient"
    /\ call.token = "tok"
    /\ call.url = <<" ">> \o ValidURL
    /\ ~call.result.built
    /\ client = NoClient


(***************************************************************************)
(* Where the configuration is read from                                    *)
(***************************************************************************)
\* the default search locations, in the documented order; those under the
\* home directory only when the home directory is known
DefaultCandidates(home) ==
    <<".delivr.yml", ".delivr.json", "config.yml", "config.json">>
      \o (IF home THEN <<HomeYaml, HomeJson>> ELSE << >>)

\* all candidates in the documented order: --config, DELIVR_CONFIG, defaults
Candidates(customPath, env) ==
    (IF customPath # "" THEN <<customPath>> ELSE << >>)
      \o (IF env.DELIVR_CONFIG # "" THEN <<env.DELIVR_CONFIG>> ELSE << >>)
      \o DefaultCandidates(env.home)

\* the first of cands that exists in fs, or default when none does
FirstExisting(cands, fs, default) ==
    IF \E k \in 1..Len(cands) : Exists(fs, cands[k])
    THEN cands[CHOOSE k \in 1..Len(cands) :
                  /\ Exists(fs, cands[k])
                  /\ \A j \in 1..(k - 1) : ~Exists(fs, cands[j])]
    ELSE default

\* C13 as stated: the path Load settles on is the first candidate that
\* exists on disk, in the order --config, DELIVR_CONFIG, .delivr.yml,
\* .delivr.json, config.yml, config.json, then config.yml and config.json
\* under ~/.delivr/; .delivr.yml if none exists.
C13_FirstExistingCandidate ==
    call.fn = "Load" =>
        call.result.path = FirstExisting(Candidates(call.customPath, environ), fsys, ".delivr.yml")

\* C13, amended: a --config path, and without one a non-empty DELIVR_CONFIG
\* path, is used as given whether or not a file exists there, and Load fails
\* with "not found" rather than falling through when there is none; only
\* without both is the path the first default location that exists, in the
\* order .delivr.yml, .delivr.json, config.yml, config.json, ~/.delivr/config.yml,
\* ~/.delivr/config.json, or .delivr.yml when none exists. DefaultConfigPath
\* itself never fails.
C13_GivenPathElseFirstExistingDefault ==
    LET default == FirstExisting(DefaultCandidates(environ.home), fsys, ".delivr.yml")
    IN /\ call.fn = "Load" =>
            /\ call.result.path = IF call.customPath # "" THEN call.customPath
                                  ELSE IF environ.DELIVR_CONFIG # "" THEN environ.DELIVR_CONFIG
                                  ELSE default
            /\ ~Exists(fsys, call.result.path) <=> call.result.err = "notfound"
       /\ call.fn = "DefaultConfigPath" =>
            /\ call.result.path = default
            /\ call.result.err = "nil"

\* --config names a file that does not exist while .delivr.yml does: Load
\* settled on the --config path and failed
C13_Witness ==
    /\ call.fn = "Load"
    /\ call.customPath = "custom.json"
    /\ ~Exists(fsys, "custom.json")
    /\ Exists(fsys, ".delivr.yml")
    /\ call.result.path = "custom.json"
    /\ call.result.err = "notfound"

\* C14: with DELIVR_CONFIG non-empty and no --config, Load reads the
\* DELIVR_CONFIG path even when files exist at the default locations; with
\* --config, Load reads the flag's path whatever DELIVR_CONFIG holds.
C14_EnvOverridesDefaultsFlagOverridesEnv ==
    call.fn = "Load" =>
        LET given == IF call.customPath # "" THEN call.customPath ELSE environ.DELIVR_CONFIG
        IN given # "" =>
            /\ call.result.path = given
            /\ call.result.err = "nil" =>
                  /\ call.result.config = fsys[given].doc
                  /\ loadedConfigPath = given
            /\ call.result.err = "nil" <=> (Exists(fsys, given) /\ fsys[given].valid)

\* DELIVR_CONFIG and --config both given, files at both and at every default
\* location: the configuration came from the --config file
C14_Witness ==
    /\ call.fn = "Load"
    /\ call.customPath = "custom.json"
    /\ environ.DELIVR_CONFIG = "env.yml"
    /\ \A p \in Paths : fsys[p] = ConfigFile(ConfigAt(p))
    /\ call.result.err = "nil"
    /\ call.result.config = ConfigAt("custom.json")
    /\ loadedConfigPath = "custom.json"

\* C15: whenever Load, without --config and DELIVR_CONFIG, loads config.yml
\* or config.json of the current directory, it has printed the deprecation
\* warning for that name.
C15_LegacyNameIsWarnedAbout ==
    (/\ call.fn = "Load"
     /\ call.customPath = "" /\ environ.DELIVR_CONFIG = ""
     /\ call.result.err = "nil"
     /\ call.result.path \in {"config.yml", "config.json"})
        => stdout = <<call.result.path>>


(***************************************************************************)
(* Truncation of the captured output                                       *)
(***************************************************************************)
\* the captured output the result message shows: stderr of a failed command,
\* stdout of a successful one
Captured == IF call.failed THEN call.stderr ELSE call.stdout

\* which stream the message shows; with nothing captured a failure shows the
\* error instead and a success shows nothing
ShownStream ==
    IF Captured = << >> THEN (IF call.failed THEN "error" ELSE "nothing")
    ELSE (IF call.failed THEN "stderr" ELSE "stdout")

\* C16 as stated: captured output of more than 1500 characters appears as
\* its first 1500 characters followed by the fixed suffix; output of 1500
\* characters or fewer appears unmodified.
C16_TruncatedAfter1500Characters ==
    call.fn = "ResultBody" =>
        /\ call.result.shows = ShownStream
        /\ call.result.text =
               IF Len(Captured) > TruncateLimit
               THEN Encode(SubSeq(Captured, 1, TruncateLimit)) \o TruncatedSuffix
               ELSE Encode(Captured)

\* C16, amended: captured output (stderr on failure, stdout on success)
\* whose UTF-8 encoding is longer than 1500 bytes appears as exactly its
\* first 1500 bytes followed by "... (truncated)"; output of 1500 bytes or
\* fewer appears unmodified and without the suffix.
C16_TruncatedAfter1500Bytes ==
    call.fn = "ResultBody" =>
        LET bytes == Encode(Captured)
            shown == call.result.text
        IN /\ call.result.shows = ShownStream
           /\ Len(bytes) > TruncateLimit =>
                /\ Len(shown) = TruncateLimit + Len(TruncatedSuffix)
                /\ \A k \in 1..TruncateLimit : shown[k] = bytes[k]
                /\ \A k \in 1..Len(TruncatedSuffix) : shown[TruncateLimit + k] = TruncatedSuffix[k]
           /\ Len(bytes) <= TruncateLimit => shown = bytes

\* a failed command whose stderr is 1500 characters of which the last takes
\* two bytes: 1501 bytes, cut inside that character
C16_Witness ==
    /\ call.fn = "ResultBody"
    /\ call.failed
    /\ call.stderr = Text(TruncateLimit, 1, TRUE)
    /\ Len(call.result.text) = TruncateLimit + Len(TruncatedSuffix)
    /\ call.result.text[TruncateLimit] = "0xC3"


(***************************************************************************)
(* Log file names                                                          *)
(***************************************************************************)
\* unicode.IsUpper on the alphabet
IsUpper(c) == c \in {"A", "Eacute", "DoubleStruckC"}

Sanitized == call.fn \in {"sanitizeFilename", "sanitizeFilename twice"}

C18_OneWriterPerToken ==
    /\ [](/\ \A k1, k2 \in DOMAIN loggers :
                /\ sanitizeFilename(k1) = sanitizeFilename(k2) => loggers[k1] = loggers[k2]
                /\ k1 # k2 => loggers[k1].id # loggers[k2].id
           /\ call.fn = "GetLogWriter" =>
                /\ sanitizeFilename(call.name) \in DOMAIN loggers
                /\ call.result = loggers[sanitizeFilename(call.name)])
    /\ [][\A t \in DOMAIN loggers : t \in DOMAIN loggers' /\ loggers'[t] = loggers[t]]_vars

\* on the second day, the name "a|" got the first writer made, which was
\* created the day before, while another writer exists as well
C18_Witness ==
    /\ call.fn = "GetLogWriter"
    /\ call.name = <<"a", "|">>
    /\ call.result.id = 1
    /\ call.result.Filename.day = 0
    /\ today = 1
    /\ Cardinality(DOMAIN loggers) = 2

\* C19: at every point of a run, GetLogPath(name) is the path of the file
\* that the writer cached for name writes to.
C19_LogPathIsWritersFile ==
    (/\ call.fn = "GetLogPath"
     /\ sanitizeFilename(call.name) \in DOMAIN loggers)
        => call.result = loggers[sanitizeFilename(call.name)].Filename

\* C20: a logger built from a configuration without logging settings uses
\* the directory ~/.delivr/logs, 10 MB, 30 days, 5 backups and compression;
\* each setting is defaulted on its own and a non-zero setting is kept; the
\* writers carry the settings of the logger.
C20_DefaultsWithCompression ==
    /\ logConfig.built =>
         /\ logConfig.config.Directory = (IF call.cfg.Directory = "" THEN DefaultLogDir ELSE call.cfg.Directory)
         /\ logConfig.baseDir = logConfig.config.Directory
         /\ logConfig.config.MaxSize = (IF call.cfg.MaxSize = 0 THEN 10 ELSE call.cfg.MaxSize)
         /\ logConfig.config.MaxAge = (IF call.cfg.MaxAge = 0 THEN 30 ELSE call.cfg.MaxAge)
         /\ logConfig.config.MaxBackups = (IF call.cfg.MaxBackups = 0 THEN 5 ELSE call.cfg.MaxBackups)
         /\ call.cfg = ZeroLogConfig => logConfig.config.Compress
    /\ \A t \in DOMAIN loggers :
         /\ loggers[t].MaxSize = logConfig.config.MaxSize
         /\ loggers[t].MaxAge = logConfig.config.MaxAge
         /\ loggers[t].MaxBackups = logConfig.config.MaxBackups
         /\ loggers[t].Compress = logConfig.config.Compress


(***************************************************************************)
(* The Docker host in the environment of the subprocess                    *)
(***************************************************************************)
Contains(entries, e) == \E k \in 1..Len(entries) : entries[k] = e

\* C21: when a Docker host is configured and the executable is exactly
\* docker, the subprocess is started with DOCKER_HOST=<configured host>,
\* also when the command has extra environment variables; for any other
\* executable, and without a configured host, the environment is that of
\* the process followed by the extra variables, with nothing injected.
C21_DockerHostInjected ==
    call.fn = "CommandEnv" =>
        IF call.dockerHost # "" /\ call.executable = "docker"
        THEN Contains(call.result, EnvEntry("DOCKER_HOST", call.dockerHost))
        ELSE call.result = call.osEnv \o call.envVars


(***************************************************************************)
(* The default configuration, written and read back                        *)
(***************************************************************************)
\* C22: for a JSON path and for a YAML path, Load of the path that
\* CreateDefaultConfig has written succeeds, reads that path, and returns a
\* configuration equal field by field to the default configuration.
C22_DefaultConfigRoundTrip ==
    call.fn = "Load" =>
        /\ call.result.err = "nil"
        /\ call.result.path = call.path
        /\ loadedConfigPath = call.path
        /\ call.result.config.WorkingDir = defaultConfig.WorkingDir
        /\ call.result.config.Docker = defaultConfig.Docker
        /\ call.result.config.Logs = defaultConfig.Logs
        /\ call.result.config.Discord = defaultConfig.Discord
        /\ call.result.config.Commands = defaultConfig.Commands

\* the default configuration was written to a .yaml path, with
\* DELIVR_CONFIG set and a .delivr.yml present, and was read back
C22_Witness ==
    /\ call.fn = "Load"
    /\ call.path = "out.yaml"
    /\ environ.DELIVR_CONFIG = "env.yml"
    /\ Exists(fsys, ".delivr.yml")
    /\ call.result.err = "nil"
    /\ call.result.config.Logs.v.Compress
    /\ call.result.config.Commands.items[1].EnvVars.isNil


(***************************************************************************)
(* Closing the command logger                                              *)
(***************************************************************************)
IsClose(e) == e.ev = "close"
Closes == SelectSeq(events, IsClose)

\* the process has ended and had constructed its command logger
EndedWithLogger == pc \in {"exited", "fatal", "killed"} /\ cmdLogger # "none"

\* C23 as stated: once the command logger was constructed, Close is called
\* exactly once, after the last log write, on every path by which the
\* process ends: the return in non-daemon mode, and termination by a signal
\* in daemon mode.
C23_ClosedOnEveryEnd ==
    (EndedWithLogger /\ (flags.daemon \/ pc = "exited")) =>
        /\ Len(Closes) = 1
        /\ IsClose(events[Len(events)])

\* C23, amended: Close is called at most once, and only by the return of
\* main: when main returns with a constructed logger (after the completion
\* message in non-daemon mode, after the signal received through the
\* registered handler and the shutdown message in daemon mode), Close has
\* been called exactly once, as the last thing done, after every log write.
\* A process ended by a signal that arrives before the handler is
\* registered, while the commands still run, never calls Close.
C23_ClosedOnceOnReturn ==
    /\ Len(Closes) <= 1
    /\ (Len(Closes) = 1) <=> (cmdLogger = "closed")
    /\ cmdLogger = "closed" =>
         /\ pc = "exited"
         /\ IsClose(events[Len(events)])
         /\ \A k \in 1..Len(events) : IsLog(events[k]) => k < Len(events)
    /\ (pc = "exited" /\ ~flags.init) => cmdLogger = "closed"
    /\ (pc = "killed" /\ cmdLogger # "none") => (cmdLogger = "open" /\ ~handler)

\* a daemon that ran a command, received a signal and returned: the logger
\* was closed after the log writes
C23_Witness ==
    /\ flags.daemon
    /\ pc = "exited"
    /\ nsig >= 1
    /\ Len(LogWrites) >= 2
    /\ Len(Closes) = 1
    /\ cmdLogger = "closed"


(***************************************************************************)
(* The blocks in the command logs                                          *)
(***************************************************************************)
\* what Execute of the c-th command has written to its log, in order
Block(c) ==
    LET W == SelectSeq(events, LAMBDA e : IsLog(e) /\ e.cmd = c)
    IN [k \in 1..Len(W) |-> W[k].kind]

Footers == {"footer_ok", "footer_fail"}

\* a block: header, subprocess output if there was any, footer
IsBlock(b) ==
    \/ (Len(b) = 2 /\ b[1] = "header" /\ b[2] \in Footers)
    \/ (Len(b) = 3 /\ b[1] = "header" /\ b[2] = "output" /\ b[3] \in Footers)

\* the beginning of a block that is still being written
IsBlockPrefix(b) ==
    \/ b = << >>
    \/ b = <<"header">>
    \/ b = <<"header", "output">>
    \/ IsBlock(b)

\* the c-th and the d-th command write to the same log: the names of the
\* catalog sanitize to different tokens, so exactly when they have one name
SameLog(c, d) == cfg.commands[c].name = cfg.commands[d].name

\* C24: an Execute whose start notification succeeded writes one block to
\* the log of its command: header, then the output of the subprocess, then
\* the footer; the footer is written before the result notification is
\* attempted; an Execute whose start notification failed writes nothing;
\* the blocks of commands that share a log do not interleave.
C24_OneBlockPerExecute ==
    \A c \in 1..NumCommands :
        /\ IsBlockPrefix(Block(c))
        /\ Block(c) # << >> => SentOk("start", c)
        /\ \A p \in Positions("notify", "start", c) :
             \A q \in 1..Len(events) : (IsLog(events[q]) /\ events[q].cmd = c) => p < q
        /\ \A p \in Positions("notify", "result", c) :
             /\ IsBlock(Block(c))
             /\ \A q \in 1..Len(events) : (IsLog(events[q]) /\ events[q].cmd = c) => q < p
        /\ \A p \in 1..Len(events) :
             (IsReturn(events[p]) /\ events[p].cmd = c) =>
                 IF SentOk("start", c) THEN IsBlock(Block(c)) ELSE Block(c) = << >>
        /\ \A d \in (c + 1)..NumCommands :
             SameLog(c, d) =>
                 \A p, q \in 1..Len(events) :
                     (IsLog(events[p]) /\ events[p].cmd = c /\ IsLog(events[q]) /\ events[q].cmd = d)
                         => p < q

\* two commands of the same name have both run: their log holds two whole
\* blocks, one after the other
C24_Witness ==
    /\ NumCommands = 2
    /\ SameLog(1, 2)
    /\ Len(Returns) = 2
    /\ Block(1) = <<"header", "output", "footer_ok">>
    /\ Block(2) = <<"header", "output", "footer_ok">>
    /\ LogKinds = << <<"header", 1>>, <<"output", 1>>, <<"footer_ok", 1>>,
                     <<"header", 2>>, <<"output", 2>>, <<"footer_ok", 2>> >>


(***************************************************************************)
(* The notifications of a non-daemon run                                   *)
(***************************************************************************)
\* the place of a notification in a run of n commands
Rank(kind, c, n) ==
    CASE kind = "startup" -> 0
      [] kind = "start" -> 4 * c + 1
      [] kind = "result" -> 4 * c + 2
      [] kind = "error" -> 4 * c + 3
      [] kind = "completion" -> 4 * (n + 1)
      [] OTHER -> 4 * (n + 2)

\* the commands whose Execute returned an error
Failed == { c \in 1..Len(Returns) : Returns[c].err # Nil }

\* C25: in a non-daemon run every notification is attempted at most once,
\* in the order startup, then per command start, result and, exactly when
\* Execute returned an error, the error message, then completion; when all
\* sends succeed a run of n commands of which k returned an error sends
\* n*2 + k + 2 messages; a failed send of the startup, error or completion
\* message does not stop the run: all commands are still executed, the
\* completion message is attempted and the process exits with status 0.
C25_NotificationsOfARun ==
    (~flags.daemon /\ ~flags.init) =>
        /\ \A k \in 1..(Len(Sent) - 1) :
             Rank(Sent[k].kind, Sent[k].cmd, NumCommands)
                < Rank(Sent[k + 1].kind, Sent[k + 1].cmd, NumCommands)
        /\ \A k \in 1..Len(Sent) :
             Sent[k].kind \in {"startup", "start", "result", "error", "completion"}
        /\ \A c \in 1..NumCommands :
             /\ Positions("notify", "result", c) # {} => SentOk("start", c)
             /\ Positions("notify", "error", c) # {} => c \in Failed
             /\ (c \in Failed /\ (i > c \/ pc = "exited")) => Positions("notify", "error", c) # {}
        /\ pc = "fatal" =>
             /\ IsFatal(events[Len(events)])
             /\ events[Len(events)].kind \in {"config", "client", "logger"}
             /\ cmdLogger = "none"
        /\ pc = "exited" =>
             /\ exitStatus = <<0>>
             /\ Len(Calls) = NumCommands
             /\ Len(Returns) = NumCommands
             /\ Positions("notify", "startup", 0) # {}
             /\ Positions("notify", "completion", 0) # {}
             /\ \A c \in 1..NumCommands : Positions("notify", "start", c) # {}
             /\ AllSendsOk => Len(Sent) = NumCommands * 2 + Cardinality(Failed) + 2

\* a run of two commands, both failing, in which the startup message, the
\* first error message and the completion message could not be sent: it
\* went on to the end; and every other send succeeded
C25_Witness ==
    /\ ~flags.daemon
    /\ pc = "exited"
    /\ NumCommands = 2
    /\ Failed = {1, 2}
    /\ NotifyKinds = << <<"startup", 0>>, <<"start", 1>>, <<"result", 1>>, <<"error", 1>>,
                        <<"start", 2>>, <<"result", 2>>, <<"error", 2>>, <<"completion", 0>> >>
    /\ ~Sent[1].ok /\ ~Sent[4].ok /\ ~Sent[8].ok
    /\ Sent[2].ok /\ Sent[3].ok /\ Sent[5].ok /\ Sent[6].ok /\ Sent[7].ok

====
